---- MODULE Spec2Model ----
(***************************************************************************)
(* Model of the lease-run / permit aggregation scripts:                    *)
(*   "aggregate_tax_Map_Parcel_ID_GA_AIU_Names - Updated.py" (one file),   *)
(*   "aggregate_tax_Map_Parcel_ID_GA_AIU_Names - Copy.py"    (batch),      *)
(*   "input_folder/To_Run_In_ArcGIS.py"        (batch + shapefile join).   *)
(*                                                                         *)
(* A cell is a tagged tuple: <<"nan">>, <<"int", n>>, <<"float", n>> (the  *)
(* integral number n held in a float64 column) or <<"str", s>>.  A header  *)
(* is a sequence of tokens, a token being a word or one blank " ", so that *)
(* stripping a header is an operation on its ends and leaves the blanks    *)
(* inside "Tax Map Parcel ID" alone.  A joined output value is a string.   *)
(***************************************************************************)
EXTENDS Integers, Sequences, FiniteSets, TLC

\* ------------------------------------------------------------------ bounds
MaxRows == 3
MaxFiles == 2

\* ------------------------------------------------------------------- cells
NaN == <<"nan">>
IntCell(n) == <<"int", n>>
FloatCell(n) == <<"float", n>>
StrCell(s) == <<"str", s>>

IsNaN(c) == c[1] = "nan"
IsNum(c) == c[1] \in {"int", "float"}
IsStr(c) == c[1] = "str"

\* ----------------------------------------------------------------- headers
SP == " "
TaxMapParcelID == <<"Tax", SP, "Map", SP, "Parcel", SP, "ID">>
TPIN == <<"TPIN">>
NameCol == <<"Name">>
AcresInUnit == <<"Acres", SP, "in", SP, "Unit">>
GrossAcresSrc == <<"Gross", SP, "acres">>
NamesOut == <<"Names">>
GrossAcresOut == <<"Gross", SP, "Acres">>
OtherCol == <<"Owner", SP, "Address">>

\* data.columns.str.strip(): blanks are removed at both ends only.
RECURSIVE lstrip(_)
lstrip(h) == IF h # <<>> /\ Head(h) = SP THEN lstrip(Tail(h)) ELSE h

RECURSIVE rstrip(_)
rstrip(h) ==
  IF h # <<>> /\ h[Len(h)] = SP THEN rstrip(SubSeq(h, 1, Len(h) - 1)) ELSE h

\* Variant: blanks taken off the front only.
strip_lstrip_only(h) == lstrip(h)

strip(h) == rstrip(lstrip(h))

strip_columns(cols) == [j \in 1..Len(cols) |-> strip(cols[j])]

\* ------------------------------------------------------ workbook on disk
\* An input workbook: whether it can be opened, its sheet names, and the
\* table of the sheet that is read.  The header row is `base` with the
\* blanks of `pad` around each name; `base` itself is never padded.
PadModes == {"none", "left", "right", "both"}

Pad(h, m) ==
  CASE m = "none" -> h
    [] m = "left" -> <<SP>> \o h
    [] m = "right" -> h \o <<SP, SP>>
    [] m = "both" -> <<SP>> \o h \o <<SP>>

header_row(f) == [j \in 1..Len(f.base) |-> Pad(f.base[j], f.pad[j])]

NoTable == [columns |-> <<>>, rows |-> <<>>, missing |-> TRUE]
Frame(cols, rows) == [columns |-> cols, rows |-> rows, missing |-> FALSE]

\* Column dtype as pandas infers it: whole numbers with a blank among them
\* are held as float64; otherwise the cells stay as they are.
infer_cell(cells, c) ==
  IF /\ \A r \in 1..Len(cells) : IsNaN(cells[r]) \/ IsNum(cells[r])
     /\ \E r \in 1..Len(cells) : IsNaN(cells[r])
     /\ IsNum(c)
  THEN FloatCell(c[2])
  ELSE c

\* xl.parse(sheet_name) / pd.read_excel(...): headers as written, cells typed.
parse(f) ==
  LET n == Len(f.rows)
      col(j) == [r \in 1..n |-> f.rows[r][j]]
  IN Frame(header_row(f),
           [r \in 1..n |->
              [j \in 1..Len(f.base) |-> infer_cell(col(j), f.rows[r][j])]])

HasColumn(df, h) == \E j \in 1..Len(df.columns) : df.columns[j] = h

ColIndex(df, h) ==
  CHOOSE j \in 1..Len(df.columns) :
    /\ df.columns[j] = h
    /\ \A k \in 1..(j - 1) : df.columns[k] # h

Column(df, h) == [r \in 1..Len(df.rows) |-> df.rows[r][ColIndex(df, h)]]

\* data[h] = "": a new last column holding the empty string in every row.
assign_empty(df, h) ==
  Frame(Append(df.columns, h),
        [r \in 1..Len(df.rows) |-> Append(df.rows[r], StrCell(""))])

\* ------------------------------------------------------ series helpers
dropna(x) == SelectSeq(x, LAMBDA c : ~IsNaN(c))

RECURSIVE unique_from(_, _)
unique_from(x, seen) ==
  IF x = <<>> THEN <<>>
  ELSE IF Head(x) \in seen THEN unique_from(Tail(x), seen)
  ELSE <<Head(x)>> \o unique_from(Tail(x), seen \cup {Head(x)})

\* Variant: repeated values kept.
unique_keep_duplicates(x) == x

\* Series.unique(): distinct values in order of first occurrence.
unique(x) == unique_from(x, {})

\* str(v) of a cell value.
str(c) ==
  CASE c[1] = "int" -> ToString(c[2])
    [] c[1] = "float" -> ToString(c[2]) \o ".0"
    [] c[1] = "str" -> c[2]
    [] OTHER -> "nan"

RECURSIVE join(_, _)
join(sep, parts) ==
  IF parts = <<>> THEN ""
  ELSE IF Len(parts) = 1 THEN parts[1]
  ELSE parts[1] \o sep \o join(sep, Tail(parts))

map_str(x) == [p \in 1..Len(x) |-> str(x[p])]

\* lambda x: ';'.join(x.dropna().unique())   -- str.join needs str items
agg_name_raises(x) == \E p \in 1..Len(x) : ~IsNaN(x[p]) /\ ~IsStr(x[p])
agg_name(x) ==
  LET u == unique(dropna(x)) IN join(";", [p \in 1..Len(u) |-> u[p][2]])

\* lambda x: ','.join(map(str, x.dropna().unique()))
agg_acres(x) == join(",", map_str(unique(dropna(x))))

\* ------------------------------------------------------------ groupby
\* Order of the group keys: ascending by value, the null key after all others.
KeyLess(a, b) == ~IsNaN(a) /\ (IsNaN(b) \/ a[2] < b[2])

RECURSIVE sort_keys(_)
sort_keys(S) ==
  IF S = {} THEN <<>>
  ELSE LET m == CHOOSE a \in S : \A b \in S \ {a} : KeyLess(a, b)
       IN <<m>> \o sort_keys(S \ {m})

Range(x) == {x[p] : p \in 1..Len(x)}

\* Variants: groupby with dropna left at True, and with sort=False.
groupby_keys_dropna(keys) == sort_keys(Range(dropna(keys)))

groupby_keys_unsorted(keys) == unique(keys)

\* data.groupby([group_column], dropna=False): sort is left at its default
\* (True), so the groups come out in sorted key order; the null key is kept.
groupby_keys(keys) == sort_keys(Range(keys))

\* The part of series x that lies in the group of key k, in row order.
RECURSIVE group_of(_, _, _)
group_of(x, keys, k) ==
  IF x = <<>> THEN <<>>
  ELSE IF Head(keys) = k
       THEN <<Head(x)>> \o group_of(Tail(x), Tail(keys), k)
       ELSE group_of(Tail(x), Tail(keys), k)

\* Variant: no column renamed.
rename_nothing(h) == h

\* aggregated_data.rename(columns={...}, inplace=True)
rename(h) ==
  CASE h = NameCol -> NamesOut
    [] h = AcresInUnit -> AcresInUnit
    [] h = GrossAcresSrc -> GrossAcresOut
    [] OTHER -> h

AggColumns == <<NameCol, AcresInUnit, GrossAcresSrc>>

\* .agg({...}) is handed three column names; one that is absent is a KeyError,
\* and a non-text name makes ';'.join raise a TypeError.
agg_raises(df) ==
  \/ \E c \in 1..Len(AggColumns) : ~HasColumn(df, AggColumns[c])
  \/ agg_name_raises(Column(df, NameCol))

\* data.groupby([g], dropna=False).agg({...}).reset_index() and the rename.
groupby_agg(df, g) ==
  LET keys == Column(df, g)
      ks == groupby_keys(keys)
  IN Frame(<<g, rename(NameCol), rename(AcresInUnit), rename(GrossAcresSrc)>>,
           [r \in 1..Len(ks) |->
              <<ks[r],
                StrCell(agg_name(group_of(Column(df, NameCol), keys, ks[r]))),
                StrCell(agg_acres(group_of(Column(df, AcresInUnit), keys, ks[r]))),
                StrCell(agg_acres(group_of(Column(df, GrossAcresSrc), keys, ks[r])))>>])

\* --------------------------------------------------------- aggregate_data
Outcome(st, t) == [status |-> st, table |-> t]

\* if h not in data.columns: AddWarning(...); data[h] = ""
synthesize(df, h) == IF HasColumn(df, h) THEN df ELSE assign_empty(df, h)

\* To_Run_In_ArcGIS.py aggregate_data: a missing sheet or grouping column is
\* reported with AddError and the function returns normally; an unreadable
\* workbook and a failing .agg raise.
aggregate_data(f) ==
  IF ~f.readable THEN Outcome("raised", NoTable)
  ELSE IF "Mapping" \notin f.sheets /\ "Lead List" \notin f.sheets
  THEN Outcome("config_error", NoTable)
  ELSE
    LET parsed == parse(f)
        data == Frame(strip_columns(parsed.columns), parsed.rows)
    IN IF ~HasColumn(data, TaxMapParcelID) /\ ~HasColumn(data, TPIN)
       THEN Outcome("config_error", NoTable)
       ELSE
         LET group_column ==
               IF HasColumn(data, TaxMapParcelID) THEN TaxMapParcelID ELSE TPIN
             filled == synthesize(synthesize(data, AcresInUnit), GrossAcresSrc)
         IN IF agg_raises(filled) THEN Outcome("raised", NoTable)
            ELSE Outcome("written", groupby_agg(filled, group_column))

\* "... - Copy.py" and "... - Updated.py" aggregate_data(sheet_name='Mapping'):
\* nothing is tested before use, so every missing piece raises.
aggregate_data_copy(f) ==
  IF ~f.readable \/ "Mapping" \notin f.sheets THEN Outcome("raised", NoTable)
  ELSE
    LET parsed == parse(f)
        data == Frame(strip_columns(parsed.columns), parsed.rows)
    IN IF ~HasColumn(data, TaxMapParcelID) \/ agg_raises(data)
       THEN Outcome("raised", NoTable)
       ELSE Outcome("written", groupby_agg(data, TaxMapParcelID))

\* ------------------------------------------------------ join_to_shapefile
\* Field names of the table that arcpy.conversion.ExcelToTable makes of the
\* workbook.  The tool belongs to the host; it either keeps a column name or
\* puts "_" for each blank in it, and which of the two is fixed for a run.
sanitize(h) == [p \in 1..Len(h) |-> IF h[p] = SP THEN "_" ELSE h[p]]

ExcelToTable(table, naming) ==
  {IF naming = "kept" THEN table.columns[j] ELSE sanitize(table.columns[j]) :
     j \in 1..Len(table.columns)}

ShapefileFields == {<<"FID">>, <<"Shape">>, <<"PARCEL">>}

required_fields == {NamesOut, AcresInUnit, GrossAcresOut}

\* [field for field in required_fields if field not in joined_fields]
missing_fields(joined_fields) == required_fields \ joined_fields

\* Variant: the export is not guarded.
validation_never_fails(missing) == FALSE

\* if missing_fields: AddError(...); return
validation_fails(missing) == missing # {}

\* --------------------------------------------------------- batch loop
\* The position after file j of n: the next file, or the end of the loop.
loop_next(n, j) ==
  [pc |-> IF j + 1 > n THEN "done" ELSE "aggregate", i |-> j + 1]

\* Variant: no except clause, as in "... - Updated.py": the run stops.
after_exception_propagates(n, j) == [pc |-> "aborted", i |-> j]

\* except Exception as e: <report>  -- the loop goes on with the next file.
after_exception(n, j) == loop_next(n, j)

VARIABLES
  script,         \* "arcgis" (To_Run_In_ArcGIS.py) or "copy" (... - Copy.py)
  input_files,    \* glob result: the workbooks, in the order they are visited
  output_folder,  \* output_folder[j]: the table in aggregated_<file j>, or NoTable
  field_naming,   \* how ExcelToTable names fields: "kept" or "sanitized"
  shapefile,      \* the layer: its fields and the files joined onto it so far
  output_layer,   \* what CopyFeatures last wrote at output_layer
  pc, i,          \* position of the main block and index of the current file
  attempts,       \* attempts[j]: times the loop body was entered for file j
  agg_status,     \* agg_status[j]: how aggregate_data ended for file j
  join_status,    \* join_status[j]: how join_to_shapefile ended for file j
  reported,       \* messages given with AddError / print: <<file, kind>>
  rerun           \* a second aggregate_data, run on a written output table

vars == <<script, input_files, output_folder, field_naming, shapefile,
          output_layer, pc, i, attempts, agg_status, join_status, reported,
          rerun>>

N == Len(input_files)

NoLayer == [written |-> FALSE, fields |-> {}, joins |-> <<>>]
NoRerun == [status |-> "none", table |-> NoTable, of |-> 0, restored |-> FALSE]

\* ------------------------------------------------------------- inputs
Workbook(rd, sh, base, pad, rows) ==
  [readable |-> rd, sheets |-> sh, base |-> base, pad |-> pad, rows |-> rows]

KeyCells == {NaN, IntCell(1), IntCell(2)}

\* A lease entry: who holds it and the acres in the unit, either possibly blank.
LeaseEntries ==
  { <<StrCell("Smith"), IntCell(10)>>, <<StrCell("Jones"), IntCell(5)>>,
    <<StrCell("Smith"), NaN>>, <<NaN, IntCell(10)>> }

\* Gross acreage is an attribute of the parcel: one figure per identifier.
GrossOf(k) == IF IsNaN(k) THEN NaN ELSE IntCell(40 * k[2])

LeaseRows == {<<k, e[1], e[2], GrossOf(k)>> : k \in KeyCells, e \in LeaseEntries}

LeaseColumns == <<TaxMapParcelID, NameCol, AcresInUnit, GrossAcresSrc>>

\* Workbooks with a full, unpadded header row and any rows of lease data.
LeaseWorkbooks ==
  {Workbook(TRUE, {"Mapping"}, LeaseColumns, [j \in 1..4 |-> "none"], rows) :
     rows \in UNION {[1..n -> LeaseRows] : n \in 1..MaxRows}}

\* One fixed body of data under every shape of header row and sheet list.
SheetLists == {{"Mapping"}, {"Lead List"}, {"Mapping", "Lead List"}, {"Sheet1"}}
GroupHeaders == {<<TaxMapParcelID>>, <<TPIN>>, <<TaxMapParcelID, TPIN>>, <<>>}

FixedCell(h, r) ==
  CASE h = TaxMapParcelID -> <<IntCell(2), NaN, IntCell(2)>>[r]
    [] h = TPIN -> <<IntCell(7), IntCell(3), IntCell(7)>>[r]
    [] h = NameCol -> <<StrCell("Jones"), StrCell("Smith"), StrCell("Smith")>>[r]
    [] h = AcresInUnit -> <<IntCell(10), IntCell(5), IntCell(10)>>[r]
    [] h = GrossAcresSrc -> <<IntCell(80), NaN, IntCell(90)>>[r]
    [] OTHER -> StrCell("PO Box")

FixedWorkbook(rd, sh, base, m) ==
  Workbook(rd, sh, base, [j \in 1..Len(base) |-> m],
           [r \in 1..3 |-> [j \in 1..Len(base) |-> FixedCell(base[j], r)]])

OptionalHeaders(sel) ==
  SelectSeq(<<NameCol, AcresInUnit, GrossAcresSrc>>, LAMBDA h : h \in sel)

ShapedWorkbooks ==
  {FixedWorkbook(TRUE, sh, g \o OptionalHeaders(sel) \o <<OtherCol>>, m) :
     sh \in SheetLists, g \in GroupHeaders,
     sel \in SUBSET {NameCol, AcresInUnit, GrossAcresSrc}, m \in PadModes}

\* The workbooks a batch is made of.
AllHeaders == <<TaxMapParcelID, NameCol, AcresInUnit, GrossAcresSrc, OtherCol>>
Catalogue ==
  { FixedWorkbook(TRUE, {"Mapping"}, AllHeaders, "none"),
    FixedWorkbook(TRUE, {"Lead List"}, <<TPIN, NameCol, AcresInUnit>>, "both"),
    FixedWorkbook(TRUE, {"Sheet1"}, AllHeaders, "none"),
    FixedWorkbook(TRUE, {"Mapping"}, <<NameCol, AcresInUnit, GrossAcresSrc>>, "none"),
    FixedWorkbook(TRUE, {"Mapping"}, <<TaxMapParcelID, AcresInUnit, GrossAcresSrc>>, "none"),
    FixedWorkbook(FALSE, {}, <<>>, "none") }

\* What an earlier run of the tool left in the output directory.
PriorOutput ==
  Frame(<<TaxMapParcelID, NamesOut, AcresInUnit, GrossAcresOut>>,
        << <<IntCell(9), StrCell("Older"), StrCell("1"), StrCell("2")>> >>)

InitCommon ==
  /\ script \in {"arcgis", "copy"}
  /\ shapefile = [fields |-> ShapefileFields, joins |-> <<>>]
  /\ output_layer = NoLayer
  /\ pc = "main"
  /\ i = 0
  /\ attempts = [j \in 1..N |-> 0]
  /\ agg_status = [j \in 1..N |-> "none"]
  /\ join_status = [j \in 1..N |-> "none"]
  /\ reported = {}
  /\ rerun = NoRerun

\* One workbook of lease data, an empty output directory.
InitLease ==
  /\ \E f \in LeaseWorkbooks : input_files = <<f>>
  /\ output_folder = [j \in 1..1 |-> NoTable]
  /\ field_naming = "kept"
  /\ InitCommon

\* One workbook of any shape, an empty output directory.
InitShaped ==
  /\ \E f \in ShapedWorkbooks : input_files = <<f>>
  /\ output_folder = [j \in 1..1 |-> NoTable]
  /\ field_naming \in {"kept", "sanitized"}
  /\ InitCommon

\* A directory of workbooks; the output directory may hold earlier results.
InitBatch ==
  /\ input_files \in UNION {[1..n -> Catalogue] : n \in 0..MaxFiles}
  /\ output_folder \in [1..N -> {NoTable, PriorOutput}]
  /\ field_naming \in {"kept", "sanitized"}
  /\ InitCommon

Init == InitLease \/ InitShaped \/ InitBatch

\* ------------------------------------------------------------ actions
\* if not input_files: AddError / print("No Excel files found ...")
NoInputFiles ==
  /\ pc = "main"
  /\ input_files = <<>>
  /\ reported' = reported \cup {<<0, "no files">>}
  /\ pc' = "done"
  /\ UNCHANGED <<script, input_files, output_folder, field_naming, shapefile,
                 output_layer, i, attempts, agg_status, join_status, rerun>>

\* else: for input_file in input_files:
EnterLoop ==
  /\ pc = "main"
  /\ input_files # <<>>
  /\ pc' = "aggregate"
  /\ i' = 1
  /\ UNCHANGED <<script, input_files, output_folder, field_naming, shapefile,
                 output_layer, attempts, agg_status, join_status, reported,
                 rerun>>

\* try: aggregate_data(input_file, output_file)
\* In To_Run_In_ArcGIS.py a normal return, which a reported configuration
\* error is too, leads on to join_to_shapefile; "... - Copy.py" has no join.
Aggregate ==
  /\ pc = "aggregate"
  /\ LET out == IF script = "arcgis" THEN aggregate_data(input_files[i])
                ELSE aggregate_data_copy(input_files[i])
         nxt == IF out.status = "raised" THEN after_exception(N, i)
                ELSE IF script = "arcgis" THEN [pc |-> "join", i |-> i]
                ELSE loop_next(N, i)
     IN /\ attempts' = [attempts EXCEPT ![i] = @ + 1]
        /\ agg_status' = [agg_status EXCEPT ![i] = out.status]
        /\ output_folder' =
             IF out.status = "written"
             THEN [output_folder EXCEPT ![i] = out.table]
             ELSE output_folder
        /\ reported' =
             CASE out.status = "raised" -> reported \cup {<<i, "exception">>}
               [] out.status = "config_error" -> reported \cup {<<i, "configuration">>}
               [] OTHER -> reported
        /\ pc' = nxt.pc
        /\ i' = nxt.i
  /\ UNCHANGED <<script, input_files, field_naming, shapefile, output_layer,
                 join_status, rerun>>

\* join_to_shapefile(shapefile, output_file, group_column, output_layer):
\* ExcelToTable raises when output_file does not exist; AddJoin leaves the
\* joined fields on the layer; CopyFeatures runs after a passed validation.
Join ==
  /\ pc = "join"
  /\ IF output_folder[i].missing
     THEN /\ join_status' = [join_status EXCEPT ![i] = "raised"]
          /\ reported' = reported \cup {<<i, "exception">>}
          /\ pc' = after_exception(N, i).pc
          /\ i' = after_exception(N, i).i
          /\ UNCHANGED <<shapefile, output_layer>>
     ELSE LET joined == [fields |-> shapefile.fields \cup
                                      ExcelToTable(output_folder[i], field_naming),
                         joins |-> Append(shapefile.joins, i)]
              missing == missing_fields(joined.fields)
          IN /\ shapefile' = joined
             /\ IF validation_fails(missing)
                THEN /\ join_status' = [join_status EXCEPT ![i] = "validation_failed"]
                     /\ reported' = reported \cup {<<i, "join validation">>}
                     /\ UNCHANGED output_layer
                ELSE /\ join_status' = [join_status EXCEPT ![i] = "exported"]
                     /\ output_layer' = [written |-> TRUE, fields |-> joined.fields,
                                         joins |-> joined.joins]
                     /\ UNCHANGED reported
             /\ pc' = loop_next(N, i).pc
             /\ i' = loop_next(N, i).i
  /\ UNCHANGED <<script, input_files, output_folder, field_naming, attempts,
                 agg_status, rerun>>

\* aggregated_data as a workbook again, with the headers as written or put
\* back to the names aggregate_data reads.  The table is placed in a sheet
\* named Mapping, so that the second run gets as far as the aggregation.
restore(h) ==
  CASE h = NamesOut -> NameCol
    [] h = GrossAcresOut -> GrossAcresSrc
    [] OTHER -> h

own_output(table, restored) ==
  Workbook(TRUE, {"Mapping"},
           [j \in 1..Len(table.columns) |->
              IF restored THEN restore(table.columns[j]) ELSE table.columns[j]],
           [j \in 1..Len(table.columns) |-> "none"],
           table.rows)

\* A second run of aggregate_data, on a table the first run wrote.
Reaggregate ==
  /\ pc = "done"
  /\ rerun.status = "none"
  /\ \E j \in 1..N, restored \in BOOLEAN :
       /\ agg_status[j] = "written"
       /\ LET f == own_output(output_folder[j], restored)
              out == IF script = "arcgis" THEN aggregate_data(f)
                     ELSE aggregate_data_copy(f)
          IN rerun' = [status |-> out.status, table |-> out.table, of |-> j,
                       restored |-> restored]
  /\ UNCHANGED <<script, input_files, output_folder, field_naming, shapefile,
                 output_layer, pc, i, attempts, agg_status, join_status,
                 reported>>

Batch == NoInputFiles \/ EnterLoop \/ Aggregate \/ Join

Next == Batch \/ Reaggregate

Spec == Init /\ [][Next]_vars

\* The script is one sequential process: while the main block has a statement
\* left, control moves on.  Every step of Batch changes <<pc, i>> and no other
\* step does, so this is weak fairness of Batch, written over the two
\* variables that say where control is.
Advance ==
  /\ pc \in {"main", "aggregate", "join"}
  /\ pc' \in {"aggregate", "join", "done", "aborted"}
  /\ i' \in 0..(N + 1)
  /\ <<pc', i'>> # <<pc, i>>

FairSpec == InitBatch /\ [][Next]_vars /\ WF_<<pc, i>>(Advance)

\* ============================================================== claims
\* What the claims say is stated over the workbook as it was given: the
\* unpadded header names `base` and the rows, typed as the sheet is read.
Written(j) == agg_status[j] = "written"

HasBase(f, h) == \E c \in 1..Len(f.base) : f.base[c] = h
BaseIndex(f, h) == CHOOSE c \in 1..Len(f.base) : f.base[c] = h
SourceKeyHeader(f) == IF HasBase(f, TaxMapParcelID) THEN TaxMapParcelID ELSE TPIN
SourceColumn(f, h) ==
  LET t == parse(f).rows
      c == BaseIndex(f, h)
  IN SubSeq([r \in 1..Len(f.rows) |-> t[r][c]], 1, Len(f.rows))
SourceKeys(f) == SourceColumn(f, SourceKeyHeader(f))

\* The members of series x at the row numbers in I, in row order.
Sub(x, I) ==
  [m \in 1..Cardinality(I) |->
     x[CHOOSE p \in I : Cardinality({q \in I : q < p}) = m - 1]]

\* The non-null values of x, each kept where it occurs first.
FirstSeen(x) ==
  Sub(x, {p \in 1..Len(x) : ~IsNaN(x[p]) /\ \A q \in 1..(p - 1) : x[q] # x[p]})

FirstRow(keys, k) == CHOOSE r \in 1..Len(keys) : keys[r] = k /\ \A q \in 1..(r - 1) : keys[q] # k

\* C1: every written output holds exactly one row for each distinct value of
\* the grouping column of its input, the null identifier counting as one
\* value: as many rows as distinct values, and none of them left out.
C1_OneRowPerKey ==
  \A j \in 1..N : Written(j) =>
    LET keys == SourceKeys(input_files[j])
        out == output_folder[j]
    IN /\ Len(out.rows) = Cardinality(Range(keys))
       /\ \A k \in Range(keys) :
            Cardinality({r \in 1..Len(out.rows) : out.rows[r][1] = k}) = 1

C1_Witness ==
  \E j \in 1..N :
    /\ Written(j)
    /\ Cardinality({r \in 1..Len(input_files[j].rows) : IsNaN(SourceKeys(input_files[j])[r])}) >= 2
    /\ \E r \in 1..Len(input_files[j].rows) : ~IsNaN(SourceKeys(input_files[j])[r])
    /\ Len(output_folder[j].rows) = 2
    /\ \E r \in 1..2 : IsNaN(output_folder[j].rows[r][1])

\* C2: in every written output row, Names is the distinct non-null Name
\* values of the rows of that key, each once, in order of first occurrence,
\* joined by ";"; the two acreage columns likewise, joined by ",".
C2_JoinedDistinctValues ==
  \A j \in 1..N : Written(j) =>
    LET f == input_files[j]
        out == output_folder[j]
        keys == SourceKeys(f)
        expected(h, k, sep) ==
          LET col == SourceColumn(f, h)
          IN StrCell(join(sep, map_str(FirstSeen(
                Sub(col, {r \in 1..Len(keys) : keys[r] = k})))))
    IN \A r \in 1..Len(out.rows) :
         /\ HasBase(f, NameCol) =>
              out.rows[r][2] = expected(NameCol, out.rows[r][1], ";")
         /\ HasBase(f, AcresInUnit) =>
              out.rows[r][3] = expected(AcresInUnit, out.rows[r][1], ",")
         /\ HasBase(f, GrossAcresSrc) =>
              out.rows[r][4] = expected(GrossAcresSrc, out.rows[r][1], ",")

C2_Witness ==
  \E j \in 1..N :
    /\ Written(j)
    /\ SourceKeys(input_files[j]) = <<IntCell(1), IntCell(1), IntCell(1)>>
    /\ SourceColumn(input_files[j], NameCol)
         = <<StrCell("Smith"), StrCell("Smith"), StrCell("Jones")>>
    /\ SourceColumn(input_files[j], AcresInUnit)
         = <<IntCell(10), IntCell(10), IntCell(5)>>
    /\ output_folder[j].columns[2] = NamesOut
    /\ output_folder[j].rows
         = << <<IntCell(1), StrCell("Smith;Jones"), StrCell("10,5"), StrCell("40")>> >>

\* C3 as claimed: the output rows follow the order in which the keys first
\* appear in the source table.
C3_FirstAppearanceOrder ==
  \A j \in 1..N : Written(j) =>
    LET keys == SourceKeys(input_files[j])
        out == output_folder[j]
    IN \A r1, r2 \in 1..Len(out.rows) :
         FirstRow(keys, out.rows[r1][1]) < FirstRow(keys, out.rows[r2][1]) => r1 < r2

\* C3 as amended: the output rows are in ascending order of the key, with the
\* row of the null identifier last, whatever the order in the source table.
C3_SortedKeyOrder ==
  \A j \in 1..N : Written(j) =>
    LET out == output_folder[j]
    IN \A r1, r2 \in 1..Len(out.rows) :
         r1 < r2 =>
           /\ ~IsNaN(out.rows[r1][1])
           /\ IsNaN(out.rows[r2][1]) \/ out.rows[r1][1][2] < out.rows[r2][1][2]

C3_Witness ==
  \E j \in 1..N :
    /\ Written(j)
    /\ Len(input_files[j].rows) = 3
    /\ SourceKeys(input_files[j]) = <<NaN, FloatCell(2), FloatCell(1)>>
    /\ [r \in 1..3 |-> output_folder[j].rows[r][1]]
         = <<FloatCell(1), FloatCell(2), NaN>>

Last(x) == x[Len(x)]

\* The iteration of the loop for file j is over.
Finished(j) == pc \in {"done", "aborted"} \/ i > j

\* The workbook has what the script in use looks for before it aggregates.
SheetFound(f) ==
  IF script = "arcgis" THEN "Mapping" \in f.sheets \/ "Lead List" \in f.sheets
  ELSE "Mapping" \in f.sheets
KeyFound(f) ==
  IF script = "arcgis" THEN HasBase(f, TaxMapParcelID) \/ HasBase(f, TPIN)
  ELSE HasBase(f, TaxMapParcelID)

OutColumn(h) == CASE h = NameCol -> 2 [] h = AcresInUnit -> 3 [] h = GrossAcresSrc -> 4

\* C4: a readable workbook with its sheet and grouping column but without one
\* of Name, Acres in Unit, Gross acres is still aggregated and written, and
\* the output column of each absent source column is "" in every row.
C4_MissingColumnsSynthesized ==
  \A j \in 1..N :
    LET f == input_files[j]
    IN (/\ attempts[j] > 0
        /\ f.readable /\ SheetFound(f) /\ KeyFound(f)
        /\ \E h \in {NameCol, AcresInUnit, GrossAcresSrc} : ~HasBase(f, h))
       => /\ Written(j)
          /\ \A h \in {NameCol, AcresInUnit, GrossAcresSrc} :
               ~HasBase(f, h) =>
                 \A r \in 1..Len(output_folder[j].rows) :
                   output_folder[j].rows[r][OutColumn(h)] = StrCell("")

\* C5: in the ArcGIS batch, a file with a configuration error is skipped: no
\* output is written for it and join_to_shapefile is not run for it.
C5_ConfigErrorSkipsFile ==
  \A j \in 1..N :
    (script = "arcgis" /\ agg_status[j] = "config_error" /\ Finished(j))
      => /\ join_status[j] = "none"
         /\ output_folder[j] \in {NoTable, PriorOutput}

\* C6: every file of the batch is attempted exactly once and in order, a
\* failure is reported and does not stop the files after it, and the loop
\* reaches its end.
C6_BatchNeverAborts ==
  /\ [](\A j \in 1..N :
          /\ attempts[j] <= 1
          /\ attempts[j] = 1 => \A k \in 1..(j - 1) : attempts[k] = 1
          /\ agg_status[j] \in {"raised", "config_error"}
               => \E m \in reported : m[1] = j)
  /\ <>(pc = "done" /\ \A j \in 1..N : attempts[j] = 1)

C6_Witness ==
  /\ pc = "done"
  /\ N = 2
  /\ agg_status[1] = "raised"
  /\ <<1, "exception">> \in reported
  /\ agg_status[2] = "written"
  /\ attempts = [j \in 1..2 |-> 1]

\* C7: a join whose layer lacks one of Names, Acres in Unit, Gross Acres is
\* reported as a validation failure and writes no output layer: whatever is
\* at output_layer was exported by a join that had all three fields.
C7_ValidationGuardsExport ==
  /\ output_layer.written =>
       /\ required_fields \subseteq output_layer.fields
       /\ join_status[Last(output_layer.joins)] = "exported"
  /\ \A j \in 1..N :
       /\ join_status[j] = "validation_failed" =>
            /\ \E m \in reported : m = <<j, "join validation">>
            /\ ~(output_layer.written /\ Last(output_layer.joins) = j)
       /\ join_status[j] = "exported" => output_layer.written

C7_Witness ==
  \E j \in 1..N :
    /\ Written(j)
    /\ join_status[j] = "validation_failed"
    /\ AcresInUnit \notin shapefile.fields
    /\ ~output_layer.written

\* C8: what is exported for a file is that file's join onto the shapefile as
\* it was given, whatever was processed before it.
C8_FilesIndependent ==
  \A j \in 1..N :
    (/\ join_status[j] = "exported"
     /\ Last(output_layer.joins) = j)
      => /\ output_layer.joins = <<j>>
         /\ output_layer.fields =
              ShapefileFields \cup ExcelToTable(output_folder[j], field_naming)

Unpadded(f) == [f EXCEPT !.pad = [c \in 1..Len(f.base) |-> "none"]]

C10_PaddingIgnored ==
  \A j \in 1..N : attempts[j] > 0 =>
    LET plain == IF script = "arcgis" THEN aggregate_data(Unpadded(input_files[j]))
                 ELSE aggregate_data_copy(Unpadded(input_files[j]))
    IN /\ agg_status[j] = plain.status
       /\ Written(j) => output_folder[j] = plain.table

C10_Witness ==
  \E j \in 1..N :
    /\ Written(j)
    /\ input_files[j].pad[1] = "both"
    /\ header_row(input_files[j])[1] = <<SP>> \o TaxMapParcelID \o <<SP>>
    /\ output_folder[j].columns[1] = TaxMapParcelID

====
